---- MODULE Spec2Model ----
(***************************************************************************)
(* Model of the mcp-demo agent orchestrator.                               *)
(*                                                                         *)
(*   src/src/mcp_demo/agent.py  the LangGraph state machine (agent_node,   *)
(*                              router, ToolNode, handle_error_node,       *)
(*                              should_continue_node) and the tool wrapper *)
(*   src/src/mcp_demo/cli.py    the session loop that owns `messages`      *)
(*   src/agent.py               the stand-alone script's tool wrapper      *)
(*                                                                         *)
(* Text is modelled as a sequence of tokens; `tok in text` of the source   *)
(* is membership of the token in the sequence, and string concatenation is *)
(* sequence concatenation.  An optional value is <<>> (None) or <<v>>.     *)
(***************************************************************************)
EXTENDS Naturals, Sequences, FiniteSets, TLC

VARIABLES
    entry,       \* the program run: "package" (mcp_demo.cli) or "script" (agent.py)
    pc,          \* position of the session: input loop / graph node / exited
    messages,    \* cli.py `messages`: the history stored between turns
    state,       \* AgentState["messages"] of the running graph
    results,     \* ToolNode: the calls that have ended, in the order they ended
    model,       \* os.environ["WATSONX_MODELNAME"]
    agent,       \* model the compiled graph `current_agent` was built with
    lastInput,   \* running turn: the message list handed to the model last
    dispatched,  \* running turn: call ids handed to tools since the last response
    invocations, \* model invocations so far in the session
    toolCalls,   \* valid tool calls emitted so far in the session
    queries,     \* user queries so far in the session
    round,       \* model invocations so far in the running turn
    turn,        \* user queries since the history was last emptied
    reset,       \* what last emptied the history: "start", "clear", "switch"
    errors,      \* "Agent Error" lines printed since the last question was read
    call,        \* normalizer harness: the invocation under test
    ret,         \* normalizer harness: what the wrapper gave its caller
    received,    \* normalizer harness: the arguments the tool was called with
    steps,       \* recursion-limit runs: supersteps of the running graph
    q            \* cli.py `q`: the kind of line the session loop read last

vars == <<entry, pc, messages, state, results, model, agent, lastInput,
          dispatched, invocations, toolCalls, queries, round, turn, reset,
          errors, call, ret, received, steps, q>>

sessionVars == <<entry, pc, messages, state, results, model, agent, lastInput,
                 dispatched, invocations, toolCalls, queries, round, turn, reset,
                 errors, q>>

----------------------------------------------------------------------------
(* Bounds of the model *)

MaxInvocations == 3
MaxToolCalls == 2

CallIds == {"a", "b"}
Models == {"m1", "m2"}

----------------------------------------------------------------------------
(* Text and optional values *)

None == <<>>
Some(x) == <<x>>

Contains(tok, text) == \E i \in DOMAIN text : text[i] = tok

Range(s) == {s[i] : i \in DOMAIN s}

IsInjective(s) == \A i, j \in DOMAIN s : s[i] = s[j] => i = j

----------------------------------------------------------------------------
(* Messages (langchain_core.messages), one record shape for every variant *)

NoMeta == [error |-> "", details |-> <<>>]

SystemMessage(c) ==
    [type |-> "system", content |-> c, tool_calls |-> <<>>,
     invalid_tool_calls |-> <<>>, tool_call_id |-> "", artifact |-> NoMeta]

HumanMessage(c) ==
    [type |-> "human", content |-> c, tool_calls |-> <<>>,
     invalid_tool_calls |-> <<>>, tool_call_id |-> "", artifact |-> NoMeta]

AIMessage(c, tcs, itcs) ==
    [type |-> "ai", content |-> c, tool_calls |-> tcs,
     invalid_tool_calls |-> itcs, tool_call_id |-> "", artifact |-> NoMeta]

ToolMessage(c, id, meta) ==
    [type |-> "tool", content |-> c, tool_calls |-> <<>>,
     invalid_tool_calls |-> <<>>, tool_call_id |-> id, artifact |-> meta]

\* a tool call / an invalid tool call as the model emits it
ToolCall(id) == [id |-> id, name |-> "getCost", args |-> "{ok}"]
InvalidToolCall(id) == [id |-> id, name |-> "getCost", args |-> "{bad"]

----------------------------------------------------------------------------
(* The tool wrapper: wrap_tool_for_error_handling                          *)

\* How the wrapped coroutine `original_func` can end.
\*   return     it returns the service's content
\*   exception  it raises an Exception; text is str(e)
\*   group      it raises a BaseExceptionGroup; text is str(eg)
\*   base       it raises a BaseException that is neither (CancelledError,
\*              KeyboardInterrupt, SystemExit)
\* `responses` are the .response attributes: of the exception itself (one
\* element) or of the nested exceptions of a group, in order.
Outcome(k, c, t, rs) == [kind |-> k, content |-> c, text |-> t, responses |-> rs]

\* an exception's .response attribute
NoResponse == [present |-> FALSE, raises |-> FALSE, text |-> <<>>]
BrokenResponse == [present |-> TRUE, raises |-> TRUE, text |-> <<>>]
Response(t) == [present |-> TRUE, raises |-> FALSE, text |-> t]

\* Python truthiness of an Optional[str]
Truthy(opt) == opt # None /\ opt[1] # <<>>

Returned(c, meta) == [raised |-> FALSE, content |-> c, metadata |-> meta]
Raised == [raised |-> TRUE, content |-> <<>>, metadata |-> NoMeta]

\* Argument values.  A str is a sequence of lexemes, quoted or not; a dict is
\* a sequence of key/value items; an int keeps its digits.
Q(x) == [quoted |-> TRUE, text |-> x]
P(x) == [quoted |-> FALSE, text |-> x]
Str(chars) == [t |-> "str", chars |-> chars, items |-> <<>>, digits |-> ""]
Dict(items) == [t |-> "dict", chars |-> <<>>, items |-> items, digits |-> ""]
Int(digits) == [t |-> "int", chars |-> <<>>, items |-> <<>>, digits |-> digits]

Digits == {"0", "12"}

\* json.loads on the documents `{}`, `{"k": "v"}`, `"v"` and a number; None
\* stands for JSONDecodeError
json_loads(chars) ==
    IF chars = <<P("{"), P("}")>> THEN Some(Dict(<<>>))
    ELSE IF /\ Len(chars) = 5
            /\ chars[1] = P("{") /\ chars[3] = P(":") /\ chars[5] = P("}")
            /\ chars[2].quoted /\ chars[4].quoted
         THEN Some(Dict(<<[key |-> chars[2].text, value |-> chars[4].text]>>))
    ELSE IF Len(chars) = 1 /\ chars[1].quoted THEN Some(Str(<<P(chars[1].text)>>))
    ELSE IF Len(chars) = 1 /\ chars[1].text \in Digits THEN Some(Int(chars[1].text))
    ELSE None

\* agent.py, the head of wrapped_func: a str `variables` is replaced by what
\* it decodes to, and kept when it does not decode
root_fix_variables(kwargs) ==
    IF kwargs.variables # None /\ kwargs.variables[1].t = "str"
    THEN LET decoded == json_loads(kwargs.variables[1].chars)
         IN IF decoded # None THEN [kwargs EXCEPT !.variables = decoded] ELSE kwargs
    ELSE kwargs

extract_response_body(response) ==
    IF response.present /\ ~response.raises THEN Some(response.text) ELSE None

\* format_error_response whose generic rendering has no "Error:" in front
format_error_response_plain(error_str, response_body) ==
    IF Contains("400 Bad Request", error_str) \/ Contains("HTTPStatusError", error_str)
    THEN Returned(
            <<"Error:", "GraphQL query failed with 400 Bad Request.">>
            \o (IF Truthy(response_body)
                THEN <<"Detailed error from API:">> \o response_body[1]
                ELSE <<>>)
            \o <<"Full exception:">> \o error_str
            \o <<"Please fix the query based on the error details and try again.">>,
            [error |-> "400_bad_request", details |-> error_str])
    ELSE Returned(<<"Tool call failed with:">> \o error_str,
                  [error |-> "unknown", details |-> error_str])

format_error_response(error_str, response_body) ==
    IF Contains("400 Bad Request", error_str) \/ Contains("HTTPStatusError", error_str)
    THEN Returned(
            <<"Error:", "GraphQL query failed with 400 Bad Request.">>
            \o (IF Truthy(response_body)
                THEN <<"Detailed error from API:">> \o response_body[1]
                ELSE <<>>)
            \o <<"Full exception:">> \o error_str
            \o <<"Please fix the query based on the error details and try again.">>,
            [error |-> "400_bad_request", details |-> error_str])
    ELSE Returned(<<"Error:", "Tool call failed with:">> \o error_str,
                  [error |-> "unknown", details |-> error_str])

RECURSIVE first_body(_, _)
\* for exc in eg.exceptions: response_body = extract(exc); if response_body: break
first_body(responses, response_body) ==
    IF responses = <<>> THEN response_body
    ELSE LET b == extract_response_body(responses[1])
         IN IF Truthy(b) THEN b ELSE first_body(Tail(responses), b)

\* wrapped_func without its `except BaseExceptionGroup` clause
wrapped_func_no_group(o) ==
    CASE o.kind = "return"    -> Returned(o.content, NoMeta)
      [] o.kind = "exception" ->
            format_error_response(o.text, extract_response_body(o.responses[1]))
      [] OTHER                -> Raised

wrapped_func(o) ==
    CASE o.kind = "return"    -> Returned(o.content, NoMeta)
      [] o.kind = "group"     ->
            format_error_response(o.text, first_body(o.responses, None))
      [] o.kind = "exception" ->
            format_error_response(o.text, extract_response_body(o.responses[1]))
      [] OTHER                -> Raised

\* src/agent.py: the same wrapper written out inline
RECURSIVE root_first_body(_)
root_first_body(responses) ==
    IF responses = <<>> THEN None
    ELSE IF responses[1].present /\ ~responses[1].raises
         THEN Some(responses[1].text)
         ELSE root_first_body(Tail(responses))

root_format(error_str, response_body) ==
    IF Contains("400 Bad Request", error_str) \/ Contains("HTTPStatusError", error_str)
    THEN Returned(
            <<"Error:", "GraphQL query failed with 400 Bad Request.">>
            \o (IF Truthy(response_body)
                THEN <<"Detailed error from API:">> \o response_body[1]
                ELSE <<>>)
            \o <<"Full exception:">> \o error_str
            \o <<"Please fix the query based on the error details above and try again.">>,
            [error |-> "400_bad_request", details |-> error_str])
    ELSE Returned(<<"Error:", "Tool call failed with:">> \o error_str,
                  [error |-> "unknown", details |-> error_str])

root_wrapped_func(o) ==
    CASE o.kind = "return"    -> Returned(o.content, NoMeta)
      [] o.kind = "group"     -> root_format(o.text, root_first_body(o.responses))
      [] o.kind = "exception" -> root_format(o.text, root_first_body(o.responses))
      [] OTHER                -> Raised

----------------------------------------------------------------------------
(* The graph of create_agent                                               *)

\* formatted_prompt, the content of the seed system directive
system_prompt == <<"You are a cloud cost agent.">>

RetryPrompt ==
    <<"The previous tool call failed with an error.",
      "DO NOT explain the error or provide suggestions.",
      "Instead, make a corrected tool call that fixes the specific error mentioned above.",
      "Try again with the proper syntax based on the error message.">>

FinalPrompt ==
    <<"Based on the tool results above, provide your final answer to the user's question.",
      "Do NOT make any more tool calls. Analyze the data and give a complete response.">>

\* the add_messages reducer on messages that carry fresh ids
add_messages(left, right) == left \o right

\* what the inference service may answer: any ordered lists of valid and of
\* invalid tool calls whose identifiers are distinct within the response
IdSeqs ==
    {s \in UNION {[1..n -> CallIds] : n \in 0..Cardinality(CallIds)} : IsInjective(s)}

Responses ==
    {AIMessage(<<"text">>,
               [i \in DOMAIN v |-> ToolCall(v[i])],
               [i \in DOMAIN iv |-> InvalidToolCall(iv[i])]) :
        <<v, iv>> \in {p \in IdSeqs \X IdSeqs : Range(p[1]) \cap Range(p[2]) = {}}}

Last(s) == s[Len(s)]

\* handle_error_node tagging its messages with the tool's name
handle_error_node_by_name(msgs) ==
    LET last_message == Last(msgs)
    IN IF last_message.type # "ai" \/ last_message.invalid_tool_calls = <<>>
       THEN <<>>
       ELSE [i \in DOMAIN last_message.invalid_tool_calls |->
                LET itc == last_message.invalid_tool_calls[i]
                IN ToolMessage(
                     <<"Error:", "The model generated an invalid tool call for tool",
                       itc.name, "with arguments", itc.args,
                       "Please check the tool's schema and your formatting and try again.">>,
                     itc.name, NoMeta)]

\* handle_error_node answering only the first invalid call
handle_error_node_first(msgs) ==
    LET last_message == Last(msgs)
    IN IF last_message.type # "ai" \/ last_message.invalid_tool_calls = <<>>
       THEN <<>>
       ELSE LET itc == last_message.invalid_tool_calls[1]
            IN <<ToolMessage(
                   <<"Error:", "The model generated an invalid tool call for tool",
                     itc.name, "with arguments", itc.args,
                     "Please check the tool's schema and your formatting and try again.">>,
                   itc.id, NoMeta)>>

handle_error_node(msgs) ==
    LET last_message == Last(msgs)
    IN IF last_message.type # "ai" \/ last_message.invalid_tool_calls = <<>>
       THEN <<>>
       ELSE [i \in DOMAIN last_message.invalid_tool_calls |->
                LET itc == last_message.invalid_tool_calls[i]
                IN ToolMessage(
                     <<"Error:", "The model generated an invalid tool call for tool",
                       itc.name, "with arguments", itc.args,
                       "Please check the tool's schema and your formatting and try again.">>,
                     itc.id, NoMeta)]

RECURSIVE last_tool_message(_)
\* for msg in reversed(messages): if isinstance(msg, ToolMessage): break
last_tool_message(msgs) ==
    IF msgs = <<>> THEN None
    ELSE IF Last(msgs).type = "tool" THEN Some(Last(msgs))
         ELSE last_tool_message(SubSeq(msgs, 1, Len(msgs) - 1))

\* should_continue_node appending a directive after a failure only
should_continue_node_on_error(msgs) ==
    LET ltm == last_tool_message(msgs)
    IN IF ltm # None /\ Contains("Error:", ltm[1].content)
       THEN <<SystemMessage(RetryPrompt)>>
       ELSE <<>>

should_continue_node(msgs) ==
    LET ltm == last_tool_message(msgs)
    IN IF ltm # None /\ Contains("Error:", ltm[1].content)
       THEN <<SystemMessage(RetryPrompt)>>
       ELSE <<SystemMessage(FinalPrompt)>>

\* router that does not look at the invalid calls
router_ignores_invalid(msgs) ==
    LET last_message == Last(msgs)
    IN IF last_message.type # "ai" THEN "END"
       ELSE IF last_message.tool_calls # <<>> THEN "action"
       ELSE "END"

\* router with the two tests in the other order
router_tools_first(msgs) ==
    LET last_message == Last(msgs)
    IN IF last_message.type # "ai" THEN "END"
       ELSE IF last_message.tool_calls # <<>> THEN "action"
       ELSE IF last_message.invalid_tool_calls # <<>> THEN "handle_error"
       ELSE "END"

router(msgs) ==
    LET last_message == Last(msgs)
    IN IF last_message.type # "ai" THEN "END"
       ELSE IF last_message.invalid_tool_calls # <<>> THEN "handle_error"
       ELSE IF last_message.tool_calls # <<>> THEN "action"
       ELSE "END"

\* the result of the call at position i among the calls that have ended
ResultOf(rs, i) == (CHOOSE j \in DOMAIN rs : rs[j].index = i)

\* tool_outputs listing the results in the order the invocations ended
tool_outputs_in_completion_order(tool_calls, rs) ==
    [j \in DOMAIN tool_calls |->
        ToolMessage(rs[j].result.content, tool_calls[rs[j].index].id,
                    rs[j].result.metadata)]

\* tool_outputs pairing the i-th call with the i-th invocation to end
tool_outputs_as_completed(tool_calls, rs) ==
    [i \in DOMAIN tool_calls |->
        ToolMessage(rs[i].result.content, tool_calls[i].id, rs[i].result.metadata)]

\* ToolNode: one ToolMessage per call, in the order of the calls, whatever
\* the order in which the calls ended
tool_outputs(tool_calls, rs) ==
    [i \in DOMAIN tool_calls |->
        LET r == rs[ResultOf(rs, i)].result
        IN ToolMessage(r.content, tool_calls[i].id, r.metadata)]

\* create_react_agent: the conditional edge after its model node
tools_condition(msgs) ==
    IF Last(msgs).type = "ai" /\ Last(msgs).tool_calls # <<>> THEN "action" ELSE "END"

IsNotSystem(msg) == msg.type # "system"

\* snapshot dropping the seed directive only
snapshot_seed_only(final_messages) == Tail(final_messages)

\* snapshot keeping the final state as it is
snapshot_all(final_messages) == final_messages

\* cli.py: the history kept from the final state of a turn
snapshot(final_messages) == SelectSeq(Tail(final_messages), IsNotSystem)

\* how a tool invocation may end during a turn
TurnOutcomes ==
    {Outcome("return", <<"rows">>, <<>>, <<>>),
     Outcome("return", <<"Error:", "no rows">>, <<>>, <<>>),
     Outcome("exception", <<>>, <<"400 Bad Request">>,
             <<Response(<<"unknown field region">>)>>),
     Outcome("base", <<>>, <<"cancelled">>, <<>>)}

----------------------------------------------------------------------------
(* The session loops of cli.py and of agent.py driving their graphs        *)

NoCall ==
    [entry |-> "none", outcome |-> Outcome("return", <<>>, <<>>, <<>>),
     kwargs |-> [query |-> Str(<<>>), variables |-> None]]

SessionInit ==
    /\ pc = "input"
    /\ messages = <<>>
    /\ state = <<>>
    /\ results = <<>>
    /\ model = "m1"
    /\ agent = "m1"
    /\ lastInput = <<>>
    /\ dispatched = <<>>
    /\ invocations = 0
    /\ toolCalls = 0
    /\ queries = 0
    /\ round = 0
    /\ turn = 0
    /\ reset = "start"
    /\ errors = 0
    /\ q = ""

Init ==
    /\ entry \in {"package", "script"}
    /\ SessionInit
    /\ call = NoCall
    /\ ret = None
    /\ received = None
    /\ steps = 0

\* the text of the n-th question of the session
QueryText(n) == <<"question", ToString(n)>>

\* cli.py, a question: appended to the history, then the graph is started
\* on the seed directive followed by the history
Query ==
    /\ entry = "package"
    /\ pc = "input"
    /\ invocations < MaxInvocations
    /\ messages' = Append(messages, HumanMessage(QueryText(queries + 1)))
    /\ state' = <<SystemMessage(system_prompt)>> \o messages'
    /\ pc' = "agent"
    /\ queries' = queries + 1
    /\ turn' = turn + 1
    /\ round' = 0
    /\ dispatched' = <<>>
    /\ errors' = 0
    /\ q' = "question"
    /\ UNCHANGED <<entry, results, model, agent, lastInput, invocations,
                   toolCalls, reset, call, ret, received, steps>>

\* /clear that leaves `messages` alone
Clear_keeps ==
    /\ entry = "package"
    /\ pc = "input"
    /\ turn' = 0
    /\ reset' = "clear"
    /\ q' = "/clear"
    /\ UNCHANGED <<entry, errors, pc, messages, state, results, model, agent, lastInput,
                   dispatched, invocations, toolCalls, queries, round, call, ret, received, steps>>

\* cli.py, /clear
Clear ==
    /\ entry = "package"
    /\ pc = "input"
    /\ messages' = <<>>
    /\ turn' = 0
    /\ reset' = "clear"
    /\ q' = "/clear"
    /\ UNCHANGED <<entry, errors, pc, state, results, model, agent, lastInput,
                   dispatched, invocations, toolCalls, queries, round, call, ret, received, steps>>

\* /switch that swaps the model and leaves `messages` alone
Switch_keeps(m) ==
    /\ entry = "package"
    /\ pc = "input"
    /\ m # model
    /\ model' = m
    /\ agent' = m
    /\ turn' = 0
    /\ reset' = "switch"
    /\ q' = "/switch"
    /\ UNCHANGED <<entry, errors, pc, messages, state, results, lastInput, dispatched,
                   invocations, toolCalls, queries, round, call, ret, received, steps>>

\* cli.py, /switch to a listed model other than the current one
Switch(m) ==
    /\ entry = "package"
    /\ pc = "input"
    /\ m # model
    /\ model' = m
    /\ agent' = m
    /\ messages' = <<>>
    /\ turn' = 0
    /\ reset' = "switch"
    /\ q' = "/switch"
    /\ UNCHANGED <<entry, errors, pc, state, results, lastInput, dispatched,
                   invocations, toolCalls, queries, round, call, ret, received, steps>>

\* agent_node followed by the conditional edge `router`
AgentNode(response) ==
    /\ entry = "package"
    /\ pc = "agent"
    /\ invocations < MaxInvocations
    /\ toolCalls + Len(response.tool_calls) <= MaxToolCalls
    /\ lastInput' = state
    /\ state' = add_messages(state, <<response>>)
    /\ pc' = router(state')
    /\ invocations' = invocations + 1
    /\ toolCalls' = toolCalls + Len(response.tool_calls)
    /\ round' = round + 1
    /\ dispatched' = <<>>
    /\ UNCHANGED <<entry, errors, messages, results, model, agent, queries, turn,
                   reset, call, ret, received, steps, q>>

\* an inference failure after which the unanswered question is taken back
AgentRaise_pops ==
    /\ pc = "agent"
    /\ invocations < MaxInvocations
    /\ invocations' = invocations + 1
    /\ state' = <<>>
    /\ pc' = "input"
    /\ lastInput' = <<>>
    /\ dispatched' = <<>>
    /\ round' = 0
    /\ errors' = errors + 1
    /\ messages' = SubSeq(messages, 1, Len(messages) - 1)
    /\ UNCHANGED <<entry, results, model, agent, toolCalls, queries,
                   turn, reset, call, ret, received, steps, q>>

\* an inference failure after which the stored history is emptied
AgentRaise_drops ==
    /\ pc = "agent"
    /\ invocations < MaxInvocations
    /\ invocations' = invocations + 1
    /\ state' = <<>>
    /\ pc' = "input"
    /\ lastInput' = <<>>
    /\ dispatched' = <<>>
    /\ round' = 0
    /\ errors' = errors + 1
    /\ messages' = <<>>
    /\ UNCHANGED <<entry, results, model, agent, toolCalls, queries,
                   turn, reset, call, ret, received, steps, q>>

\* the inference service fails: the exception leaves the graph and is
\* reported by the `except Exception` around the turn
AgentRaise ==
    /\ pc = "agent"
    /\ invocations < MaxInvocations
    /\ invocations' = invocations + 1
    /\ state' = <<>>
    /\ pc' = "input"
    /\ lastInput' = <<>>
    /\ dispatched' = <<>>
    /\ round' = 0
    /\ errors' = errors + 1
    /\ UNCHANGED <<entry, messages, results, model, agent, toolCalls, queries,
                   turn, reset, call, ret, received, steps, q>>

\* ToolNode starts every call of the last response at once
ToolDispatch ==
    /\ pc = "action"
    /\ results' = <<>>
    /\ dispatched' = [i \in DOMAIN Last(state).tool_calls |-> Last(state).tool_calls[i].id]
    /\ pc' = "gather"
    /\ UNCHANGED <<entry, errors, messages, state, model, agent, lastInput, invocations,
                   toolCalls, queries, round, turn, reset, call, ret, received, steps, q>>

\* one of the calls in flight ends, in any order; what the wrapper lets
\* through leaves the graph and the session loop
ToolComplete(i, o) ==
    /\ pc = "gather"
    /\ i \in DOMAIN Last(state).tool_calls
    /\ \A j \in DOMAIN results : results[j].index # i
    /\ LET r == IF entry = "package" THEN wrapped_func(o) ELSE root_wrapped_func(o)
       IN IF r.raised
          THEN /\ pc' = "exited"
               /\ results' = <<>>
               /\ state' = <<>>
               /\ lastInput' = <<>>
               /\ dispatched' = <<>>
               /\ round' = 0
          ELSE /\ results' = Append(results, [index |-> i, result |-> r])
               /\ UNCHANGED <<pc, state, lastInput, dispatched, round>>
    /\ UNCHANGED <<entry, errors, messages, model, agent, invocations, toolCalls,
                   queries, turn, reset, call, ret, received, steps, q>>

\* the edge from the tool node leading straight back to the model
ToolGather_to_agent ==
    /\ pc = "gather"
    /\ Len(results) = Len(Last(state).tool_calls)
    /\ state' = add_messages(state, tool_outputs(Last(state).tool_calls, results))
    /\ pc' = "agent"
    /\ UNCHANGED <<entry, errors, messages, results, model, agent, lastInput, dispatched,
                   invocations, toolCalls, queries, round, turn, reset, call, ret, received, steps, q>>

\* every call has ended: ToolNode returns its messages
ToolGather ==
    /\ pc = "gather"
    /\ Len(results) = Len(Last(state).tool_calls)
    /\ state' = add_messages(state, tool_outputs(Last(state).tool_calls, results))
    /\ pc' = IF entry = "package" THEN "should_continue" ELSE "agent"
    /\ UNCHANGED <<entry, errors, messages, results, model, agent, lastInput, dispatched,
                   invocations, toolCalls, queries, round, turn, reset, call, ret, received, steps, q>>

ShouldContinue ==
    /\ pc = "should_continue"
    /\ state' = add_messages(state, should_continue_node(state))
    /\ results' = <<>>
    /\ pc' = "agent"
    /\ UNCHANGED <<entry, errors, messages, model, agent, lastInput, dispatched,
                   invocations, toolCalls, queries, round, turn, reset, call, ret, received, steps, q>>

HandleError ==
    /\ pc = "handle_error"
    /\ state' = add_messages(state, handle_error_node(state))
    /\ pc' = "agent"
    /\ UNCHANGED <<entry, errors, messages, results, model, agent, lastInput, dispatched,
                   invocations, toolCalls, queries, round, turn, reset, call, ret, received, steps, q>>

\* the end of a turn after which `messages` is left as it was
CaptureFinalState_skips ==
    /\ entry = "package"
    /\ pc = "END"
    /\ state' = <<>>
    /\ pc' = "input"
    /\ lastInput' = <<>>
    /\ dispatched' = <<>>
    /\ round' = 0
    /\ UNCHANGED <<entry, errors, messages, results, model, agent, invocations,
                   toolCalls, queries, turn, reset, call, ret, received, steps, q>>

\* cli.py, on_chain_end of the graph: the final state replaces the history
CaptureFinalState ==
    /\ entry = "package"
    /\ pc = "END"
    /\ messages' = snapshot(state)
    /\ state' = <<>>
    /\ pc' = "input"
    /\ lastInput' = <<>>
    /\ dispatched' = <<>>
    /\ round' = 0
    /\ UNCHANGED <<entry, errors, results, model, agent, invocations, toolCalls,
                   queries, turn, reset, call, ret, received, steps, q>>

\* quit, or KeyboardInterrupt anywhere in the loop
Exit ==
    /\ pc # "exited"
    /\ pc' = "exited"
    /\ state' = <<>>
    /\ results' = <<>>
    /\ lastInput' = <<>>
    /\ dispatched' = <<>>
    /\ round' = 0
    /\ UNCHANGED <<entry, errors, messages, model, agent, invocations, toolCalls,
                   queries, turn, reset, call, ret, received, steps, q>>

\* agent.py, a question: the graph is invoked on this one message
ScriptQuery ==
    /\ entry = "script"
    /\ pc = "input"
    /\ invocations < MaxInvocations
    /\ state' = <<HumanMessage(QueryText(queries + 1))>>
    /\ pc' = "agent"
    /\ queries' = queries + 1
    /\ turn' = turn + 1
    /\ round' = 0
    /\ dispatched' = <<>>
    /\ errors' = 0
    /\ q' = "question"
    /\ UNCHANGED <<entry, messages, results, model, agent, lastInput,
                   invocations, toolCalls, reset, call, ret, received, steps>>

\* agent.py, /clear: a new graph is compiled
ScriptClear ==
    /\ entry = "script"
    /\ pc = "input"
    /\ turn' = 0
    /\ reset' = "clear"
    /\ q' = "/clear"
    /\ UNCHANGED <<entry, errors, pc, messages, state, results, model, agent, lastInput,
                   dispatched, invocations, toolCalls, queries, round, call, ret, received, steps>>

\* agent.py, /switch: get_state() without a config raises, so the fallback
\* compiles a new graph for the new model
ScriptSwitch(m) ==
    /\ entry = "script"
    /\ pc = "input"
    /\ m # model
    /\ model' = m
    /\ agent' = m
    /\ turn' = 0
    /\ reset' = "switch"
    /\ q' = "/switch"
    /\ UNCHANGED <<entry, errors, pc, messages, state, results, lastInput, dispatched,
                   invocations, toolCalls, queries, round, call, ret, received, steps>>

\* create_react_agent: the prompt is put in front of the state's messages
\* for the model call; the response is routed by tools_condition
ScriptAgent(response) ==
    /\ entry = "script"
    /\ pc = "agent"
    /\ invocations < MaxInvocations
    /\ toolCalls + Len(response.tool_calls) <= MaxToolCalls
    /\ lastInput' = <<SystemMessage(system_prompt)>> \o state
    /\ state' = add_messages(state, <<response>>)
    /\ pc' = tools_condition(state')
    /\ invocations' = invocations + 1
    /\ toolCalls' = toolCalls + Len(response.tool_calls)
    /\ round' = round + 1
    /\ dispatched' = <<>>
    /\ UNCHANGED <<entry, errors, messages, results, model, agent, queries, turn,
                   reset, call, ret, received, steps, q>>

\* agent.py: ainvoke returns, the last message is printed, nothing is kept
ScriptEnd ==
    /\ entry = "script"
    /\ pc = "END"
    /\ state' = <<>>
    /\ pc' = "input"
    /\ lastInput' = <<>>
    /\ dispatched' = <<>>
    /\ round' = 0
    /\ UNCHANGED <<entry, errors, messages, results, model, agent, invocations,
                   toolCalls, queries, turn, reset, call, ret, received, steps, q>>

Next ==
    \/ Query
    \/ Clear
    \/ \E m \in Models : Switch(m)
    \/ \E response \in Responses : AgentNode(response)
    \/ AgentRaise
    \/ ToolDispatch
    \/ \E i \in 1..Cardinality(CallIds), o \in TurnOutcomes : ToolComplete(i, o)
    \/ ToolGather
    \/ ShouldContinue
    \/ HandleError
    \/ CaptureFinalState
    \/ Exit
    \/ ScriptQuery
    \/ ScriptClear
    \/ \E m \in Models : ScriptSwitch(m)
    \/ \E response \in Responses : ScriptAgent(response)
    \/ ScriptEnd

Spec == Init /\ [][Next]_vars

----------------------------------------------------------------------------
(* Reading a turn's state                                                  *)

\* position of the latest AssistantResponse in msgs, 0 if there is none
LastAIIndex(msgs) ==
    LET S == {k \in DOMAIN msgs : msgs[k].type = "ai"}
    IN IF S = {} THEN 0 ELSE CHOOSE k \in S : \A j \in S : j <= k

\* the messages appended after the latest AssistantResponse
AfterLastAI(msgs) == SubSeq(msgs, LastAIIndex(msgs) + 1, Len(msgs))

IsTool(msg) == msg.type = "tool"

\* the ToolResults of the round of the latest AssistantResponse
RoundResults(msgs) == SelectSeq(AfterLastAI(msgs), IsTool)

\* a ToolResult the wrapper produced from a failed invocation
IsFailure(msg) == msg.artifact.error # ""

\* the package's graph is in a turn and the model has answered in it
InRound == entry = "package" /\ state # <<>> /\ round >= 1

\* the Decision Forcer has just appended its directive
Forced == InRound /\ pc = "agent" /\ Last(state).type = "system"

----------------------------------------------------------------------------
(* C1 .. C3: routing and the forced decision                               *)

\* C1: the response of the model node is routed to the Invalid-Call Handler
\* if it carries an invalid call (also when it carries valid calls too),
\* else to the Tool Execution Node if it carries a valid call, else the turn
\* ends; and no tool is started in a round whose response carries an
\* invalid call.
C1_RouterPrecedence ==
    InRound =>
        LET r == state[LastAIIndex(state)]
        IN /\ Last(state).type = "ai" =>
                IF r.invalid_tool_calls # <<>> THEN pc = "handle_error"
                ELSE IF r.tool_calls # <<>> THEN pc \in {"action", "gather"}
                ELSE pc = "END"
           /\ r.invalid_tool_calls # <<>> => dispatched = <<>> /\ results = <<>>

\* a response with an invalid and a valid call has been through the handler
C1_Witness ==
    /\ InRound
    /\ pc = "agent"
    /\ state[LastAIIndex(state)].invalid_tool_calls # <<>>
    /\ state[LastAIIndex(state)].tool_calls # <<>>
    /\ Last(state).type = "tool"
    /\ dispatched = <<>>

\* C2 (as claimed): after a tool round in which at least one of the N
\* results is a Failure, whatever its position, the Decision Forcer appends
\* the retry directive.
C2_RetryOnAnyFailure ==
    Forced =>
        ((\E i \in DOMAIN RoundResults(state) : IsFailure(RoundResults(state)[i]))
            => Last(state).content = RetryPrompt)

\* C3 (as claimed): after a tool round in which every invocation succeeded,
\* whatever content the service returned, the Decision Forcer appends the
\* finalize directive.
C3_FinalizeOnAllSuccess ==
    Forced =>
        ((\A i \in DOMAIN RoundResults(state) : ~IsFailure(RoundResults(state)[i]))
            => Last(state).content = FinalPrompt)

\* C5: when the Tool Execution Node completes on a response with N >= 1
\* valid calls, exactly N ToolResults follow the response, one per call,
\* each tagged with the identifier of the call whose invocation produced
\* its content, in whatever order the N invocations ended.
C5_ToolResults ==
    InRound /\ pc = "should_continue" =>
        LET calls == state[LastAIIndex(state)].tool_calls
            out == AfterLastAI(state)
        IN /\ Len(calls) >= 1
           /\ Len(out) = Len(calls)
           /\ Len(results) = Len(calls)
           /\ \A j \in DOMAIN out : out[j].type = "tool"
           /\ \A j \in DOMAIN results :
                LET S == {n \in DOMAIN out :
                            out[n].tool_call_id = calls[results[j].index].id}
                IN /\ Cardinality(S) = 1
                   /\ \A n \in S : /\ out[n].content = results[j].result.content
                                   /\ out[n].artifact = results[j].result.metadata

\* two calls ended in the reverse of the order they were issued in, with
\* different results, and the node has completed
C5_Witness ==
    /\ InRound
    /\ pc = "should_continue"
    /\ Len(results) = 2
    /\ results[1].index = 2
    /\ results[1].result.content # results[2].result.content

\* C6: for a response with k invalid calls the Invalid-Call Handler appends
\* exactly k corrective messages, the i-th carrying the identifier of the
\* i-th invalid call; on a last message that is no AssistantResponse or has
\* no invalid call it appends nothing.
C6_CorrectiveMessages ==
    InRound =>
        LET r == state[LastAIIndex(state)]
            out == AfterLastAI(state)
        IN /\ pc = "agent" /\ r.invalid_tool_calls # <<>> =>
                /\ Len(out) = Len(r.invalid_tool_calls)
                /\ \A i \in DOMAIN out :
                      /\ out[i].type = "tool"
                      /\ out[i].tool_call_id = r.invalid_tool_calls[i].id
           /\ Last(state).type # "ai" \/ Last(state).invalid_tool_calls = <<>> =>
                handle_error_node(state) = <<>>

\* the handler has answered a response with two invalid calls
C6_Witness ==
    /\ InRound
    /\ pc = "agent"
    /\ Len(state[LastAIIndex(state)].invalid_tool_calls) = 2
    /\ Len(AfterLastAI(state)) = 2

\* position of the first AssistantResponse after position k, Len + 1 if none
NextAIIndex(msgs, k) ==
    LET S == {j \in DOMAIN msgs : j > k /\ msgs[j].type = "ai"}
    IN IF S = {} THEN Len(msgs) + 1 ELSE CHOOSE j \in S : \A n \in S : j <= n

\* C7 (as claimed): whenever the model is invoked, every valid call of every
\* AssistantResponse in its input has exactly one ToolResult, found between
\* that response and the next one.
C7_EveryValidCallAnswered ==
    entry = "package" =>
        \A k \in DOMAIN lastInput :
            lastInput[k].type = "ai" =>
                \A i \in DOMAIN lastInput[k].tool_calls :
                    Cardinality({j \in (k + 1)..(NextAIIndex(lastInput, k) - 1) :
                                    /\ lastInput[j].type = "tool"
                                    /\ lastInput[j].tool_call_id
                                         = lastInput[k].tool_calls[i].id}) = 1

\* C9: the message list given to the model has the seed directive first and
\* nowhere else, and the history stored between turns never holds it.
C9_SeedDirective ==
    /\ lastInput # <<>> =>
          /\ lastInput[1] = SystemMessage(system_prompt)
          /\ \A i \in 2..Len(lastInput) : lastInput[i] # SystemMessage(system_prompt)
    /\ \A i \in DOMAIN messages : messages[i] # SystemMessage(system_prompt)

\* the model is invoked, in a later turn, on an input that holds a forced
\* directive, while earlier messages are stored
C9_Witness ==
    /\ entry = "package"
    /\ queries >= 2
    /\ messages # <<>>
    /\ \E i \in 2..Len(lastInput) : lastInput[i].type = "system"

\* C10: after /clear the stored history is empty, and the first model input
\* of the next turn is the seed directive followed by that turn's query.
C10_ClearResets ==
    reset = "clear" =>
        /\ turn = 0 => messages = <<>>
        /\ turn = 1 /\ round = 1 /\ lastInput # <<>> =>
              lastInput = <<SystemMessage(system_prompt),
                            HumanMessage(QueryText(queries))>>

\* the model is invoked in the first turn after a /clear that followed an
\* earlier turn
C10_Witness ==
    /\ entry = "package"
    /\ reset = "clear"
    /\ queries >= 2
    /\ turn = 1
    /\ round = 1
    /\ lastInput # <<>>

----------------------------------------------------------------------------
(* The wrapper on its own: every way an invocation can end                 *)

MaxNested == 2

ErrTexts ==
    {<<"timeout">>, <<"400 Bad Request">>, <<"404 Not Found">>,
     <<"HTTPStatusError", "500 Internal Server Error">>,
     <<"HTTPStatusError", "400 Bad Request">>}

Bodies ==
    {NoResponse, BrokenResponse, Response(<<>>),
     Response(<<"unknown field region">>), Response(<<"syntax error">>)}

AllOutcomes ==
    {Outcome("return", c, <<>>, <<>>) : c \in {<<"rows">>, <<"Error:", "no rows">>}}
    \cup {Outcome("exception", <<>>, t, <<b>>) : t \in ErrTexts, b \in Bodies}
    \cup {Outcome("group", <<>>, t, bs) :
            t \in ErrTexts, bs \in UNION {[1..n -> Bodies] : n \in 1..MaxNested}}
    \cup {Outcome("base", <<>>, <<"cancelled">>, <<>>)}

\* the `variables` argument of an invocation: absent, a str that is a
\* document, a str that is none, or a value that is no str
VariablesArgs ==
    {None,
     Some(Str(<<P("{"), Q("region"), P(":"), Q("us"), P("}")>>)),
     Some(Str(<<P("{"), P("}")>>)),
     Some(Str(<<Q("us")>>)),
     Some(Str(<<P("12")>>)),
     Some(Str(<<P("{"), Q("region")>>)),
     Some(Str(<<P("region")>>)),
     Some(Str(<<>>)),
     Some(Dict(<<[key |-> "region", value |-> "us"]>>))}

\* the `query` argument: GraphQL text, or text that is also a document
QueryArgs == {Str(<<P("query"), P("{"), P("cost"), P("}")>>), Str(<<P("{"), P("}")>>)}

Kwargs == [query : QueryArgs, variables : VariablesArgs]

InitNorm ==
    /\ entry = "package"
    /\ SessionInit
    /\ call \in [entry : {"package", "script"}, outcome : AllOutcomes,
                  kwargs : Kwargs]
    /\ ret = None
    /\ received = None
    /\ steps = 0

\* the tool runs through the wrapper of src/src/mcp_demo/agent.py
InvokePackage ==
    /\ call.entry = "package"
    /\ ret = None
    /\ received' = Some(call.kwargs)
    /\ ret' = Some(wrapped_func(call.outcome))
    /\ UNCHANGED <<sessionVars, call, steps>>

\* the tool runs through the wrapper of src/agent.py
InvokeScript ==
    /\ call.entry = "script"
    /\ ret = None
    /\ received' = Some(root_fix_variables(call.kwargs))
    /\ ret' = Some(root_wrapped_func(call.outcome))
    /\ UNCHANGED <<sessionVars, call, steps>>

NextNorm == InvokePackage \/ InvokeScript

SpecNorm == InitNorm /\ [][NextNorm]_vars

----------------------------------------------------------------------------
(* C4, C8: the wrapper's contract                                          *)

\* C4 (as claimed): however the invocation ends, the wrapper returns a
\* (content, metadata) pair and lets nothing through to its caller.
C4_NeverPropagates == ret # None => ~ret[1].raised

\* C4 (amended): the wrapper returns a pair when the invocation returns,
\* raises an Exception or raises an exception group, and lets through
\* exactly the bare BaseException (cancellation, interrupt).
C4_PropagatesOnlyBare ==
    ret # None => (ret[1].raised <=> call.outcome.kind = "base")

\* the package's wrapper has turned an exception group into a pair
C4_Witness ==
    /\ ret # None
    /\ call.entry = "package"
    /\ call.outcome.kind = "group"
    /\ ~ret[1].raised
    /\ ret[1].metadata.error # ""

\* C8 (as claimed): a failure's metadata.error is "400_bad_request" exactly
\* when its text carries the HTTP 400 signature; any other failure, a
\* non-400 HTTP status error included, is "unknown" with the generic content.
C8_Classification ==
    ret # None /\ call.outcome.kind \in {"exception", "group"} =>
        LET t == call.outcome.text
        IN /\ ret[1].metadata.error = "400_bad_request"
                <=> Contains("400 Bad Request", t)
           /\ ~Contains("400 Bad Request", t) =>
                /\ ret[1].metadata.error = "unknown"
                /\ ret[1].content = <<"Error:", "Tool call failed with:">> \o t


----------------------------------------------------------------------------
(* Model switch                                                            *)

\* the questions read since the history was last emptied
SinceReset == {QueryText(k) : k \in (queries - turn + 1)..queries}

\* every question in the list was read since the history was last emptied
OnlySinceReset(ms) ==
    \A i \in DOMAIN ms : ms[i].type = "human" => ms[i].content \in SinceReset

----------------------------------------------------------------------------
(* Inference failure                                                       *)

\* this step called the model and no response was added to the state
ModelCallRaises ==
    /\ pc = "agent"
    /\ invocations' = invocations + 1
    /\ ~(Len(state') = Len(state) + 1 /\ Last(state').type = "ai")

\* this step read a question
ReadsQuestion == pc = "input" /\ pc' = "agent"

\* C12: a step in which the model call raises prints the turn's only
\* "Agent Error" line, returns the session to its input prompt and leaves
\* the stored history as it was; the next question is appended to that
\* history, and in the package program the graph is started on all of it
C12_InferenceFailure ==
    [][/\ ModelCallRaises =>
             /\ errors = 0
             /\ errors' = 1
             /\ pc' = "input"
             /\ messages' = messages
       /\ ~ModelCallRaises /\ ~ReadsQuestion => errors' = errors
       /\ ReadsQuestion =>
             /\ Len(messages') >= Len(messages)
             /\ SubSeq(messages', 1, Len(messages)) = messages
             /\ entry = "package" =>
                    state' = <<SystemMessage(system_prompt)>> \o messages
                                 \o <<HumanMessage(QueryText(queries'))>>
      ]_vars

\* the turn after an answered one was aborted by an inference failure: the
\* earlier question, its answer and the failed question are stored
C12_Witness ==
    /\ entry = "package"
    /\ pc = "input"
    /\ errors = 1
    /\ Len(messages) >= 3
    /\ messages[1].type = "human"
    /\ messages[Len(messages)].type = "human"

----------------------------------------------------------------------------
(* Causal consistency                                                      *)

\* the identifiers of the valid calls of the responses before position j
ValidIdsBefore(ms, j) ==
    {ms[k].tool_calls[i].id :
        <<k, i>> \in {p \in (1..(j - 1)) \X (1..Cardinality(CallIds)) :
                        /\ ms[p[1]].type = "ai"
                        /\ p[2] \in DOMAIN ms[p[1]].tool_calls}}

\* the identifiers of the invalid calls of the responses before position j
InvalidIdsBefore(ms, j) ==
    {ms[k].invalid_tool_calls[i].id :
        <<k, i>> \in {p \in (1..(j - 1)) \X (1..Cardinality(CallIds)) :
                        /\ ms[p[1]].type = "ai"
                        /\ p[2] \in DOMAIN ms[p[1]].invalid_tool_calls}}

CausalValidOnly(ms) ==
    \A j \in DOMAIN ms :
        ms[j].type = "tool" => ms[j].tool_call_id \in ValidIdsBefore(ms, j)

Causal(ms) ==
    \A j \in DOMAIN ms :
        ms[j].type = "tool" =>
            ms[j].tool_call_id \in ValidIdsBefore(ms, j) \cup InvalidIdsBefore(ms, j)

\* C13 (as claimed): in the running state and in the stored history, every
\* ToolResult-shaped message carries the identifier of a valid call of an
\* earlier AssistantResponse.
C13_CausalValidOnly == CausalValidOnly(state) /\ CausalValidOnly(messages)

\* C13 (amended): in the running state, in the list handed to the model and
\* in the stored history, every ToolResult-shaped message carries the
\* identifier of a call, valid or invalid, of an earlier AssistantResponse.
C13_Causal == Causal(state) /\ Causal(lastInput) /\ Causal(messages)

\* the stored history holds a corrective message, whose identifier is that
\* of an invalid call and of no valid call before it
C13_Witness ==
    /\ entry = "package"
    /\ pc = "input"
    /\ \E j \in DOMAIN messages :
          /\ messages[j].type = "tool"
          /\ Contains("The model generated an invalid tool call for tool",
                      messages[j].content)
          /\ messages[j].tool_call_id \notin ValidIdsBefore(messages, j)
          /\ messages[j].tool_call_id \in InvalidIdsBefore(messages, j)

----------------------------------------------------------------------------
(* Finalization                                                            *)

\* a step of the graph or of the loop around it that waits for no user:
\* the model call ends, a tool call ends, a node runs, the turn is stored
GraphStep ==
    \/ \E response \in Responses : AgentNode(response)
    \/ AgentRaise
    \/ ToolDispatch
    \/ \E i \in 1..Cardinality(CallIds), o \in TurnOutcomes : ToolComplete(i, o)
    \/ ToolGather
    \/ ShouldContinue
    \/ HandleError
    \/ CaptureFinalState
    \/ \E response \in Responses : ScriptAgent(response)
    \/ ScriptEnd

\* the event loop runs a node that is ready; reading input waits for the user
FairSpec == Spec /\ WF_vars(GraphStep)

\* the Decision Forcer has just appended the finalize directive
Finalizing == Forced /\ Last(state) = SystemMessage(FinalPrompt)

----------------------------------------------------------------------------
(* Order of the results of a round                                         *)

\* what each call of the round returned, by the position of the call in the
\* response: the order in which the calls ended is not in it
ByCall(rs) == [i \in DOMAIN rs |-> rs[ResultOf(rs, i)].result]

\* C15: when the Tool Execution Node completes, the i-th message it appended
\* is the result of the i-th call of the response and carries that call's
\* identifier, so the appended messages are a function of the response and
\* of what each call returned, and not of the order the calls ended in.
C15_ResultOrder ==
    InRound /\ pc = "should_continue" =>
        LET calls == state[LastAIIndex(state)].tool_calls
            out == AfterLastAI(state)
            by_call == ByCall(results)
        IN /\ Len(out) = Len(calls)
           /\ DOMAIN by_call = DOMAIN calls
           /\ \A i \in DOMAIN calls :
                 out[i] = ToolMessage(by_call[i].content, calls[i].id,
                                      by_call[i].metadata)

\* the calls "b" then "a" ended second call first, with different results,
\* and the node has completed
C15_Witness ==
    /\ InRound
    /\ pc = "should_continue"
    /\ Len(results) = 2
    /\ results[1].index = 2
    /\ results[2].index = 1
    /\ results[1].result # results[2].result
    /\ state[LastAIIndex(state)].tool_calls[1].id = "b"
    /\ state[LastAIIndex(state)].tool_calls[2].id = "a"

----------------------------------------------------------------------------
(* Argument decoding                                                       *)

\* what the claim has the service receive for the arguments kw
Decoded(kw) ==
    IF kw.variables # None /\ kw.variables[1].t = "str"
    THEN IF json_loads(kw.variables[1].chars) # None
         THEN [query |-> kw.query, variables |-> json_loads(kw.variables[1].chars)]
         ELSE kw
    ELSE kw

\* C16 (as claimed): in both programs, once the wrapper has run, the tool
\* was called with `variables` decoded if it was a str holding a document,
\* with the raw str if it does not decode, and with every other argument as
\* it was given.
C16_ArgumentDecoding ==
    ret # None => received = Some(Decoded(call.kwargs))

----------------------------------------------------------------------------
(* The end of a turn                                                       *)

----------------------------------------------------------------------------
(* The state machine of a turn                                             *)

\* the state of the turn's machine the session is in; "none" outside a turn
Phase(p) ==
    CASE p = "agent" -> "Invoking"
      [] p \in {"action", "gather"} -> "Executing"
      [] p = "should_continue" -> "Forcing"
      [] p = "handle_error" -> "Repairing"
      [] p = "END" -> "Done"
      [] OTHER -> "none"

Transitions ==
    {<<"Invoking", "Executing">>, <<"Invoking", "Repairing">>, <<"Invoking", "Done">>,
     <<"Executing", "Forcing">>, <<"Forcing", "Invoking">>, <<"Repairing", "Invoking">>}

\* C19: in the package program a turn starts in Invoking; a step that stays
\* in the turn and changes its state takes one of the six transitions; from
\* Done the turn only ends; a directive is appended by the step out of
\* Forcing and by no other step of a turn, and Forcing is entered from
\* Executing only; every step out of Invoking to a router decision is one
\* model invocation and no step from another state invokes the model.  (A
\* step that ends the turn by a failure or an interrupt leaves the machine.)
C19_TurnStateMachine ==
    [][entry = "package" =>
          LET a == Phase(pc)
              b == Phase(pc')
          IN /\ a = "none" /\ b # "none" => b = "Invoking"
             /\ a # "none" /\ b # "none" /\ a # b => <<a, b>> \in Transitions
             /\ a = "Done" => b \in {"Done", "none"}
             /\ a = "Executing" /\ b \notin {"Executing", "none"} => b = "Forcing"
             /\ a # "none" /\ Len(state') > Len(state) /\ Last(state').type = "system"
                    => a = "Forcing" /\ Len(state') = Len(state) + 1
             /\ a = "Forcing" /\ b # "none" =>
                    /\ b = "Invoking"
                    /\ Len(state') = Len(state) + 1
                    /\ Last(state').type = "system"
             /\ a = "Invoking" /\ b \notin {"Invoking", "none"} =>
                    /\ invocations' = invocations + 1
                    /\ round' = round + 1
             /\ a \notin {"Invoking", "none"} => invocations' = invocations
      ]_vars

\* a turn that went through Repairing, then Executing and Forcing, is in Done
C19_Witness ==
    /\ InRound
    /\ pc = "END"
    /\ round = 3
    /\ \E j \in DOMAIN state :
          /\ state[j].type = "tool"
          /\ Contains("The model generated an invalid tool call for tool",
                      state[j].content)
          /\ \E n \in DOMAIN state : n > j /\ state[n] = SystemMessage(FinalPrompt)

----------------------------------------------------------------------------
(* The shape of a turn's history                                           *)

IsDirective(msg) ==
    msg.type = "system" /\ msg.content \in {RetryPrompt, FinalPrompt}

IsCorrective(msg) ==
    /\ msg.type = "tool"
    /\ Contains("The model generated an invalid tool call for tool", msg.content)

\* (a) the results of the calls of r, in their order, then one directive
ResultsThenDirective(r, seg) ==
    /\ Len(r.tool_calls) >= 1
    /\ Len(seg) = Len(r.tool_calls) + 1
    /\ \A i \in DOMAIN r.tool_calls :
          /\ seg[i].type = "tool"
          /\ seg[i].tool_call_id = r.tool_calls[i].id
          /\ ~IsCorrective(seg[i])
    /\ IsDirective(seg[Len(seg)])

\* (b) the corrective messages of the invalid calls of r, and no directive
CorrectivesOnly(r, seg) ==
    /\ Len(r.invalid_tool_calls) >= 1
    /\ Len(seg) = Len(r.invalid_tool_calls)
    /\ \A i \in DOMAIN r.invalid_tool_calls :
          /\ IsCorrective(seg[i])
          /\ seg[i].tool_call_id = r.invalid_tool_calls[i].id

\* the positions of the AssistantResponses appended in the running turn:
\* the graph was started on the seed directive and the stored history
TurnResponses ==
    {k \in DOMAIN state : k > Len(messages) + 1 /\ state[k].type = "ai"}

\* C20: in the package program, what lies between two consecutive
\* AssistantResponses of the running turn is either the results of the
\* first one's calls followed by one directive, or the corrective messages
\* of the first one's invalid calls and nothing else.
C20_HistoryShape ==
    InRound =>
        \A k \in TurnResponses :
            LET j == NextAIIndex(state, k)
                seg == SubSeq(state, k + 1, j - 1)
            IN j <= Len(state) =>
                  \/ ResultsThenDirective(state[k], seg)
                  \/ CorrectivesOnly(state[k], seg)

\* three responses in one turn: corrective messages lie between the first
\* two, results and a directive between the last two
C20_Witness ==
    /\ InRound
    /\ Cardinality(TurnResponses) = 3
    /\ \E k \in TurnResponses :
          /\ NextAIIndex(state, k) <= Len(state)
          /\ CorrectivesOnly(state[k], SubSeq(state, k + 1, NextAIIndex(state, k) - 1))
    /\ \E k \in TurnResponses :
          /\ NextAIIndex(state, k) <= Len(state)
          /\ ResultsThenDirective(state[k], SubSeq(state, k + 1, NextAIIndex(state, k) - 1))

----------------------------------------------------------------------------
(* A turn that never gets an answer: the tool fails the same way on every  *)
(* call and the model answers every round with another call.  The graph is *)
(* run by astream_events without a `recursion_limit`, so LangGraph's       *)
(* default applies: after RecursionLimit supersteps with a node still to   *)
(* run it raises GraphRecursionError.  The turns of Spec stay below that   *)
(* number of supersteps, which is why Spec does not count them.            *)

RecursionLimit == 25

\* the tool's one way of failing
FailingOutcome ==
    Outcome("exception", <<>>, <<"400 Bad Request">>,
            <<Response(<<"unknown field region">>)>>)

\* the model's answers: one more call, valid or invalid
LoopResponses ==
    {AIMessage(<<"text">>, <<ToolCall("a")>>, <<>>),
     AIMessage(<<"text">>, <<>>, <<InvalidToolCall("a")>>)}

InitLoop ==
    /\ entry = "package"
    /\ SessionInit
    /\ call = NoCall
    /\ ret = None
    /\ received = None
    /\ steps = 0

\* cli.py, the question that starts the turn
LoopQuery ==
    /\ pc = "input"
    /\ queries = 0
    /\ messages' = Append(messages, HumanMessage(QueryText(queries + 1)))
    /\ state' = <<SystemMessage(system_prompt)>> \o messages'
    /\ pc' = "agent"
    /\ queries' = queries + 1
    /\ turn' = turn + 1
    /\ round' = 0
    /\ errors' = 0
    /\ steps' = 0
    /\ q' = "question"
    /\ UNCHANGED <<entry, results, model, agent, lastInput, dispatched, invocations,
                   toolCalls, reset, call, ret, received>>

\* superstep: agent_node, then the conditional edge `router`
LoopAgent(response) ==
    /\ pc = "agent"
    /\ steps < RecursionLimit
    /\ lastInput' = state
    /\ state' = add_messages(state, <<response>>)
    /\ pc' = router(state')
    /\ invocations' = invocations + 1
    /\ round' = round + 1
    /\ steps' = steps + 1
    /\ UNCHANGED <<entry, messages, results, model, agent, dispatched, toolCalls,
                   queries, turn, reset, errors, call, ret, received, q>>

\* superstep: ToolNode runs every call of the response through the wrapper
LoopToolNode ==
    /\ pc = "action"
    /\ steps < RecursionLimit
    /\ LET tool_calls == Last(state).tool_calls
           rs == [i \in DOMAIN tool_calls |->
                     [index |-> i, result |-> wrapped_func(FailingOutcome)]]
       IN state' = add_messages(state, tool_outputs(tool_calls, rs))
    /\ pc' = "should_continue"
    /\ steps' = steps + 1
    /\ UNCHANGED <<entry, messages, results, model, agent, lastInput, dispatched,
                   invocations, toolCalls, queries, round, turn, reset, errors,
                   call, ret, received, q>>

\* superstep: should_continue_node
LoopShouldContinue ==
    /\ pc = "should_continue"
    /\ steps < RecursionLimit
    /\ state' = add_messages(state, should_continue_node(state))
    /\ pc' = "agent"
    /\ steps' = steps + 1
    /\ UNCHANGED <<entry, messages, results, model, agent, lastInput, dispatched,
                   invocations, toolCalls, queries, round, turn, reset, errors,
                   call, ret, received, q>>

\* superstep: handle_error_node
LoopHandleError ==
    /\ pc = "handle_error"
    /\ steps < RecursionLimit
    /\ state' = add_messages(state, handle_error_node(state))
    /\ pc' = "agent"
    /\ steps' = steps + 1
    /\ UNCHANGED <<entry, messages, results, model, agent, lastInput, dispatched,
                   invocations, toolCalls, queries, round, turn, reset, errors,
                   call, ret, received, q>>

\* the limit is reached and the graph returns what it has, as a finished run
LoopRecursionError_returns ==
    /\ pc \in {"agent", "action", "should_continue", "handle_error"}
    /\ steps = RecursionLimit
    /\ pc' = "END"
    /\ UNCHANGED <<entry, messages, state, results, model, agent, lastInput,
                   dispatched, invocations, toolCalls, queries, round, turn, reset,
                   errors, call, ret, received, steps, q>>

\* the limit is reached with a node still to run: GraphRecursionError leaves
\* astream_events and is reported by the `except Exception` around the turn
LoopRecursionError ==
    /\ pc \in {"agent", "action", "should_continue", "handle_error"}
    /\ steps = RecursionLimit
    /\ errors' = errors + 1
    /\ state' = <<>>
    /\ lastInput' = <<>>
    /\ round' = 0
    /\ pc' = "input"
    /\ UNCHANGED <<entry, messages, results, model, agent, dispatched, invocations,
                   toolCalls, queries, turn, reset, call, ret, received, steps, q>>

NextLoop ==
    \/ LoopQuery
    \/ \E response \in LoopResponses : LoopAgent(response)
    \/ LoopToolNode
    \/ LoopShouldContinue
    \/ LoopHandleError
    \/ LoopRecursionError

SpecLoop == InitLoop /\ [][NextLoop]_vars

\* C21 (as claimed): the turn of such a run, once started, is never ended by
\* the orchestrator: it is for ever at one of the nodes of the cycle.
C21_CyclesForever ==
    queries = 1 => pc \in {"agent", "action", "should_continue", "handle_error"}

\* C21 (amended): the turn never reaches Done and every directive it gets is
\* the retry directive; it runs for RecursionLimit supersteps and no more,
\* and it ends only there, by the one turn-level error of the run, with the
\* stored history holding the question and nothing of the turn.
C21_CyclesUntilLimit ==
    /\ pc # "END"
    /\ steps <= RecursionLimit
    /\ \A k \in DOMAIN state :
          k > 1 /\ state[k].type = "system" => state[k] = SystemMessage(RetryPrompt)
    /\ queries = 1 /\ pc # "input" => errors = 0
    /\ queries = 1 /\ pc = "input" =>
          /\ errors = 1
          /\ steps = RecursionLimit
          /\ messages = <<HumanMessage(QueryText(1))>>

\* the turn was ended by the recursion limit
C21_Witness ==
    /\ queries = 1
    /\ pc = "input"
    /\ errors = 1
    /\ steps = RecursionLimit
    /\ invocations >= 9

----------------------------------------------------------------------------
(* Diagnostic detail                                                       *)

\* sub occurs in text as a run of consecutive tokens
ContainsSeq(sub, text) ==
    \E i \in 0..Len(text) :
        /\ i + Len(sub) <= Len(text)
        /\ \A j \in DOMAIN sub : text[i + j] = sub[j]

\* the nested failures that have a response body: the text can be read and
\* there is text in it
WithBody(responses) ==
    {i \in DOMAIN responses :
        /\ responses[i].present
        /\ ~responses[i].raises
        /\ responses[i].text # <<>>}

\* C22 (as claimed): in both programs, a failure the wrapper classifies
\* 400-class is rendered with the raw exception text, and with the response
\* body of the first nested failure (the failure itself, if it is a single
\* one) that has a body, under "Detailed error from API:"; when no failure
\* has a body no detail is given.
C22_DiagnosticDetail ==
    (/\ ret # None
     /\ call.outcome.kind \in {"group", "exception"}
     /\ ret[1].metadata.error = "400_bad_request") =>
        LET o == call.outcome
            S == WithBody(o.responses)
        IN /\ ~ret[1].raised
           /\ ContainsSeq(o.text, ret[1].content)
           /\ S # {} =>
                 LET first == CHOOSE i \in S : \A j \in S : i <= j
                 IN ContainsSeq(<<"Detailed error from API:">> \o o.responses[first].text,
                                ret[1].content)
           /\ S = {} => ~Contains("Detailed error from API:", ret[1].content)

----------------------------------------------------------------------------
(* Interrupts                                                              *)

\* the positions of a running turn
InTurn == {"agent", "action", "gather", "should_continue", "handle_error", "END"}

\* C23 (as claimed): whatever happens while a turn is running, an interrupt
\* included, the session stays alive: a step taken in a running turn leads
\* to another position of the turn or back to the input prompt.
C23_InterruptAbortsTurnOnly ==
    [][(pc \in InTurn) => (pc' \in InTurn \/ pc' = "input")]_vars

----------------------------------------------------------------------------
(* Start-up: tracing is set up before the graph is built and the session   *)
(* loop is entered                                                         *)

InitStart ==
    /\ entry \in {"package", "script"}
    /\ pc = "start"
    /\ messages = <<>>
    /\ state = <<>>
    /\ results = <<>>
    /\ model = "m1"
    /\ agent = "m1"
    /\ lastInput = <<>>
    /\ dispatched = <<>>
    /\ invocations = 0
    /\ toolCalls = 0
    /\ queries = 0
    /\ round = 0
    /\ turn = 0
    /\ reset = "start"
    /\ errors = 0
    /\ q = ""
    /\ call = NoCall
    /\ ret = None
    /\ received = None
    /\ steps = 0

\* init_tracing (agent.py 73-79 in the script): launch_app, register and
\* instrument are called with no handler around them, so what they raise
\* leaves cli() and asyncio.run(), and the process ends
init_tracing(collector_up) ==
    /\ pc = "start"
    /\ pc' = IF collector_up THEN "input" ELSE "crashed"
    /\ UNCHANGED <<entry, messages, state, results, model, agent, lastInput,
                   dispatched, invocations, toolCalls, queries, round, turn, reset,
                   errors, call, ret, received, steps, q>>

NextStart ==
    \/ \E collector_up \in BOOLEAN : init_tracing(collector_up)
    \/ pc \notin {"start", "crashed"} /\ Next

SpecStart == InitStart /\ [][NextStart]_vars

\* C24 (as claimed): however the set-up of tracing ends, the session loop is
\* entered: the step from start-up leads to the input prompt.
C24_TracingIsolation ==
    [][(pc = "start") => (pc' = "input")]_vars

----------------------------------------------------------------------------
(* Directives and the stored history                                       *)

RECURSIVE WithoutDirectives(_)
\* msgs with every SystemDirective taken out, the rest in its order
WithoutDirectives(msgs) ==
    IF msgs = <<>> THEN <<>>
    ELSE IF msgs[1].type = "system" THEN WithoutDirectives(Tail(msgs))
         ELSE <<msgs[1]>> \o WithoutDirectives(Tail(msgs))

----------------------------------------------------------------------------
(* The question of an aborted turn                                         *)

\* C26: in the package program a question is appended to the stored history
\* by the step that reads it; the steps of the turn leave the history alone,
\* and so does the step in which the model call raises, after which the
\* history ends with the unanswered question; when the next question is
\* read with the history not emptied in between, the graph is started on an
\* input that ends with the two questions, nothing between them.
C26_UnansweredQueryKept ==
    [][entry = "package" =>
          /\ ReadsQuestion =>
                messages' = Append(messages, HumanMessage(QueryText(queries + 1)))
          /\ (pc \in InTurn) /\ (pc' \in InTurn) => messages' = messages
          /\ ModelCallRaises =>
                /\ messages' = messages
                /\ Last(messages') = HumanMessage(QueryText(queries))
          /\ ReadsQuestion /\ errors = 1 /\ turn >= 1 =>
                /\ Len(state') >= 3
                /\ state'[Len(state') - 1] = HumanMessage(QueryText(queries))
                /\ state'[Len(state')] = HumanMessage(QueryText(queries + 1))
      ]_vars

\* the graph has been started on the question that follows an aborted turn
C26_Witness ==
    /\ entry = "package"
    /\ pc = "agent"
    /\ round = 0
    /\ queries = 2
    /\ Len(state) = 3
    /\ state[2] = HumanMessage(QueryText(1))
    /\ state[3] = HumanMessage(QueryText(2))

----------------------------------------------------------------------------
(* The failure marker                                                      *)

\* a round of one valid call whose invocation ended as the wrapper reported
RoundOfOne(r) ==
    <<SystemMessage(system_prompt), HumanMessage(QueryText(1)),
      AIMessage(<<"text">>, <<ToolCall("a")>>, <<>>),
      ToolMessage(r.content, "a", r.metadata)>>

\* C27: every failure the wrapper of either program reports, in the
\* 400-class and in the generic rendering, has "Error:" in its content, and
\* the Decision Forcer answers a round of one call that ended so with the
\* retry directive; every corrective message of the Invalid-Call Handler has
\* "Error:" in its content too.
C27_FailureMarker ==
    /\ (ret # None /\ ~ret[1].raised /\ ret[1].metadata.error # "") =>
          /\ ret[1].metadata.error \in {"400_bad_request", "unknown"}
          /\ Contains("Error:", ret[1].content)
          /\ should_continue_node(RoundOfOne(ret[1])) = <<SystemMessage(RetryPrompt)>>
    /\ \A r \in Responses :
          LET out == handle_error_node(<<HumanMessage(QueryText(1)), r>>)
          IN /\ Len(out) = Len(r.invalid_tool_calls)
             /\ \A i \in DOMAIN out : Contains("Error:", out[i].content)

\* the package's wrapper has reported a failure in the generic rendering
C27_Witness ==
    /\ ret # None
    /\ call.entry = "package"
    /\ call.outcome.kind = "group"
    /\ ~ret[1].raised
    /\ ret[1].metadata.error = "unknown"

-----------------------------------------------------------------------------
(* Session commands that change nothing (cli.py 56-64, 69-105) *)

\* get_available_models(): the models listed in .env, none when the file is
\* missing or lists none
AvailableModels == {<<>>, <<"m1", "m2">>}

\* what the user can answer at "Enter number: "; "^C" is a KeyboardInterrupt
Choices == {"0", "1", "2", "3", "x", "^C"}

\* str.isdigit() on the stripped choice
isdigit(choice) == choice \in {"0", "1", "2", "3"}

\* int(choice)
int(choice) ==
    CASE choice = "0" -> 0
      [] choice = "1" -> 1
      [] choice = "2" -> 2
      [] choice = "3" -> 3

\* cli.py 72-103: how /switch ends for a listing and a choice
switch_ending(available_models, choice, current) ==
    IF available_models = <<>> THEN "no_models"
    ELSE IF choice = "^C" THEN "cancelled"
    ELSE IF isdigit(choice)
         THEN LET choice_idx == int(choice) - 1
              IN  IF 0 <= choice_idx /\ choice_idx < Len(available_models)
                  THEN IF available_models[choice_idx + 1] = current
                       THEN "already"
                       ELSE "switched"
                  ELSE "invalid"
         ELSE "not_a_number"

\* the line read, with the way a /switch that did not switch ended
SwitchLine(ending) ==
    CASE ending = "no_models"    -> "/switch:no_models"
      [] ending = "cancelled"    -> "/switch:cancelled"
      [] ending = "already"      -> "/switch:already"
      [] ending = "invalid"      -> "/switch:invalid"
      [] ending = "not_a_number" -> "/switch:not_a_number"

\* cli.py 56-64: help prints the command list
Help ==
    /\ entry = "package"
    /\ pc = "input"
    /\ q' = "help"
    /\ UNCHANGED <<entry, pc, messages, state, results, model, agent, lastInput,
                   dispatched, invocations, toolCalls, queries, round, turn, reset,
                   errors, call, ret, received, steps>>

\* cli.py 69-71: /model prints the current model
ShowModel ==
    /\ entry = "package"
    /\ pc = "input"
    /\ q' = "/model"
    /\ UNCHANGED <<entry, pc, messages, state, results, model, agent, lastInput,
                   dispatched, invocations, toolCalls, queries, round, turn, reset,
                   errors, call, ret, received, steps>>

\* cli.py 104-105: a blank line is skipped
Blank ==
    /\ entry = "package"
    /\ pc = "input"
    /\ q' = ""
    /\ UNCHANGED <<entry, pc, messages, state, results, model, agent, lastInput,
                   dispatched, invocations, toolCalls, queries, round, turn, reset,
                   errors, call, ret, received, steps>>

\* a /switch that does not switch and empties the history all the same
SwitchUnchanged_clears(available_models, choice) ==
    /\ entry = "package"
    /\ pc = "input"
    /\ switch_ending(available_models, choice, model) # "switched"
    /\ q' = SwitchLine(switch_ending(available_models, choice, model))
    /\ messages' = <<>>
    /\ UNCHANGED <<entry, pc, state, results, model, agent, lastInput,
                   dispatched, invocations, toolCalls, queries, round, turn, reset,
                   errors, call, ret, received, steps>>

\* cli.py 72-103: /switch with no model listed, a cancelled, non-numeric or
\* out-of-range selection, or the selection of the current model
SwitchUnchanged(available_models, choice) ==
    /\ entry = "package"
    /\ pc = "input"
    /\ switch_ending(available_models, choice, model) # "switched"
    /\ q' = SwitchLine(switch_ending(available_models, choice, model))
    /\ UNCHANGED <<entry, pc, messages, state, results, model, agent, lastInput,
                   dispatched, invocations, toolCalls, queries, round, turn, reset,
                   errors, call, ret, received, steps>>

NextCmd ==
    \/ Next
    \/ Help
    \/ ShowModel
    \/ Blank
    \/ \E available_models \in AvailableModels, choice \in Choices :
          SwitchUnchanged(available_models, choice)

SpecCmd == Init /\ [][NextCmd]_vars

\* the lines that the claim lists as changing nothing
NoOpLines ==
    {"help", "/model", "", "/switch:no_models", "/switch:cancelled",
     "/switch:already", "/switch:invalid", "/switch:not_a_number"}

\* C28: in the package program a step that reads help, /model, a blank line
\* or a /switch ending in "already using", an invalid, non-numeric or
\* cancelled selection or an empty model list leaves the stored history, the
\* active model and the active agent as they are, calls the model not once
\* and is back at the prompt; the stored history changes only in a step that
\* reads a question, reads /clear, switches to another model, or stores the
\* outcome of a finished turn
C28_CommandFrame ==
    [][(entry = "package") =>
          /\ (pc = "input" /\ q' \in NoOpLines /\ q' # q) =>
                /\ messages' = messages
                /\ model' = model
                /\ agent' = agent
                /\ invocations' = invocations
                /\ dispatched' = dispatched
                /\ pc' = "input"
          /\ (messages' # messages) =>
                \/ pc = "input" /\ q' = "question"
                \/ pc = "input" /\ q' = "/clear"
                \/ pc = "input" /\ q' = "/switch" /\ model' # model
                \/ pc = "END" /\ pc' = "input"]_vars

\* a /switch that chose the current model was read after a turn whose history
\* is still stored
C28_Witness ==
    /\ entry = "package"
    /\ pc = "input"
    /\ q = "/switch:already"
    /\ Len(messages) >= 2
    /\ invocations >= 1

====
